---- MODULE Spec2Model ----
(***************************************************************************)
(* A model of the wildcard deduction engine of pod2_prover:                *)
(*   src/src/engine.rs        DeductionEngine and the ascent! rule set     *)
(*   src/src/types.rs         HashableStatement, HashableValue, chains     *)
(*   src/src/wildcard/types.rs  WildcardId, WildcardAnchoredKey, matches   *)
(*                                                                         *)
(* The engine owns one AscentProgram.  Its relations are the state: they   *)
(* are plain vectors that run() only ever adds to, so what an earlier run  *)
(* derived is still there in a later run.  prove() is modelled at the      *)
(* grain of the strata of run(): the projections and the base rules        *)
(* (ProveStart), one iteration of the loop of the recursive rule           *)
(* (ReachIter), and the connector and can_prove rules (ProveFinish).       *)
(***************************************************************************)
EXTENDS Integers, Sequences, FiniteSets, TLC

VARIABLES
    known_statement,      \* Vec<(HashableStatement,)>, in push order
    target_statement,     \* Vec<(WildcardStatement,)>: empty or one target
    can_prove,            \* Vec<(HashableStatement, DeductionChain)>
    known_value,          \* set of <<key, value>>
    known_equal,          \* set of <<key, key>>
    known_gt,
    known_lt,
    known_neq,
    known_contains,
    reachable_equal,      \* set of [x, y, chain]
    connected_to_target,  \* set of [x, y, chain]
    reach_delta,          \* the delta of reachable_equal inside the loop
    iter,                 \* iterations of the loop done in the current run
    pc,                   \* "idle", or the stratum prove() is in
    returned,             \* what the last prove() returned
    lastOp,               \* the last call that completed
    streak,               \* completed prove() calls since the last other call
    ran_targets,          \* the values target_statement had in completed runs
    nProves,              \* prove() calls started
    nTargets              \* set_target() calls made

vars == <<known_statement, target_statement, can_prove, known_value,
          known_equal, known_gt, known_lt, known_neq, known_contains,
          reachable_equal, connected_to_target, reach_delta, iter, pc,
          returned, lastOp, streak, ran_targets, nProves, nTargets>>

relations == <<can_prove, known_value, known_equal, known_gt, known_lt,
               known_neq, known_contains, reachable_equal,
               connected_to_target>>

(***************************************************************************)
(* Bounds of the model.                                                    *)
(***************************************************************************)
MaxFacts == 3
MaxProves == 2
MaxTargets == 2
\* The loop of the recursive rule is cut after MaxIter iterations; a run
\* that needs more stays inside the loop.
MaxIter == MaxFacts + 2

Range(s) == {s[i] : i \in 1..Len(s)}

(***************************************************************************)
(* Keys, values, statements.                                               *)
(***************************************************************************)
\* AnchoredKey(Origin, String): k[1] is the origin, k[2] the field name.
AnchoredKey(origin, name) == <<origin, name>>

NoKey == <<"-", "-">>
NoValue == <<"None", 0>>

\* HashableValue: a tag and the payload of the variant (VInt for
\* HashableValue::Int, and so on).
VInt(i) == <<"Int", i>>
VString(s) == <<"String", s>>
VBool(b) == <<"Bool", b>>
VArray(elems) == <<"Array", elems>>            \* elems: sequence of middleware values
VSet(elems) == <<"Set", elems>>                \* elems: set of middleware values
VDictionary(kvs) == <<"Dictionary", kvs>>      \* kvs: set of <<key, value>> pairs

\* The middleware Value of an i64, of a string hash and of a container
\* commitment.  Hashes and commitments are kept symbolic: two of them are
\* equal iff they are of the same input (no collisions).
FromInt(i) == <<"i64", i>>
hash_str(s) == <<"hash", s>>
commitment(container) == <<"commitment", container>>

\* Mutant: a boolean is not turned into 0 or 1.
to_value_raw_bool(hv) ==
    CASE hv[1] = "Int" -> FromInt(hv[2])
      [] hv[1] = "String" -> hash_str(hv[2])
      [] hv[1] = "Bool" -> <<"bool", hv[2]>>
      [] hv[1] = "Array" -> commitment(hv)
      [] hv[1] = "Set" -> commitment(hv)
      [] hv[1] = "Dictionary" -> commitment(hv)

to_value(hv) ==
    CASE hv[1] = "Int" -> FromInt(hv[2])
      [] hv[1] = "String" -> hash_str(hv[2])
      [] hv[1] = "Bool" -> FromInt(IF hv[2] THEN 1 ELSE 0)
      [] hv[1] = "Array" -> commitment(hv)
      [] hv[1] = "Set" -> commitment(hv)
      [] hv[1] = "Dictionary" -> commitment(hv)

\* Mutant: a dictionary contains the values of its entries.
check_contains_dictionary_values(container, contained) ==
    CASE container[1] = "Array" ->
           \E i \in 1..Len(container[2]) : container[2][i] = to_value(contained)
      [] container[1] = "Set" -> to_value(contained) \in container[2]
      [] container[1] = "Dictionary" ->
           \E kv \in container[2] : kv[2] = to_value(contained)
      [] OTHER -> FALSE

check_contains(container, contained) ==
    CASE container[1] = "Array" ->
           \E i \in 1..Len(container[2]) : container[2][i] = to_value(contained)
      [] container[1] = "Set" -> to_value(contained) \in container[2]
      [] OTHER -> FALSE

\* HashableStatement: every variant as one record shape.
Stmt(pred, k1, k2, k3, v) == [pred |-> pred, k1 |-> k1, k2 |-> k2, k3 |-> k3, v |-> v]
None == Stmt("None", NoKey, NoKey, NoKey, NoValue)
ValueOf(ak, v) == Stmt("ValueOf", ak, NoKey, NoKey, v)
Equal(ak1, ak2) == Stmt("Equal", ak1, ak2, NoKey, NoValue)
NotEqual(ak1, ak2) == Stmt("NotEqual", ak1, ak2, NoKey, NoValue)
Gt(ak1, ak2) == Stmt("Gt", ak1, ak2, NoKey, NoValue)
Lt(ak1, ak2) == Stmt("Lt", ak1, ak2, NoKey, NoValue)
Contains(ak1, ak2) == Stmt("Contains", ak1, ak2, NoKey, NoValue)
NotContains(ak1, ak2) == Stmt("NotContains", ak1, ak2, NoKey, NoValue)
SumOf(ak1, ak2, ak3) == Stmt("SumOf", ak1, ak2, ak3, NoValue)
ProductOf(ak1, ak2, ak3) == Stmt("ProductOf", ak1, ak2, ak3, NoValue)
MaxOf(ak1, ak2, ak3) == Stmt("MaxOf", ak1, ak2, ak3, NoValue)

\* DeductionStep = (op code, premises, conclusion); the op code is kept as
\* the name of the NativeOperation.
DeductionStep(op, inputs, output) == [op |-> op, inputs |-> inputs, output |-> output]

(***************************************************************************)
(* Wildcards.                                                              *)
(***************************************************************************)
\* WildcardAnchoredKey(WildcardId, String)
Concrete(origin, key) == [kind |-> "Concrete", id |-> origin, field |-> key]
Named(label, key) == [kind |-> "Named", id |-> label, field |-> key]

\* Mutant: a Concrete wildcard key compares the field name alone.
matches_ignores_origin(w, concrete) == w.field = concrete[2]

matches(w, concrete) ==
    IF w.kind = "Concrete"
    THEN w.id = concrete[1] /\ w.field = concrete[2]
    ELSE IF w.kind = "Named"
         THEN w.field = concrete[2]
         ELSE FALSE

\* WildcardStatement: the predicate, the wildcard key, and the concrete
\* key (or, for ValueOf, the value).
WildcardStatement(pred, w, k, v) == [pred |-> pred, w |-> w, k |-> k, v |-> v]
WEqual(w, k) == WildcardStatement("Equal", w, k, NoValue)
WNotEqual(w, k) == WildcardStatement("NotEqual", w, k, NoValue)
WGt(w, k) == WildcardStatement("Gt", w, k, NoValue)
WLt(w, k) == WildcardStatement("Lt", w, k, NoValue)
WContains(w, k) == WildcardStatement("Contains", w, k, NoValue)
WValueOf(w, v) == WildcardStatement("ValueOf", w, NoKey, v)

(***************************************************************************)
(* The rules of the ascent! program, each as the set of tuples its body    *)
(* produces from the relations it reads.                                   *)
(***************************************************************************)
\* Fact projections.
known_value_rule(ks) ==
    {<<s.k1, s.v>> : s \in {t \in Range(ks) : t.pred = "ValueOf"}}

known_pairs_rule(ks, pred) ==
    {<<s.k1, s.k2>> : s \in {t \in Range(ks) : t.pred = pred}}

\* Mutant: the first two keys of a SumOf are projected as an equality.
known_equal_rule_reads_sum(ks) ==
    known_pairs_rule(ks, "Equal") \cup known_pairs_rule(ks, "SumOf")

known_equal_rule(ks) == known_pairs_rule(ks, "Equal")
known_gt_rule(ks) == known_pairs_rule(ks, "Gt")
known_lt_rule(ks) == known_pairs_rule(ks, "Lt")
known_neq_rule(ks) == known_pairs_rule(ks, "NotEqual")
known_contains_rule(ks) == known_pairs_rule(ks, "Contains")

Tuple(x, y, chain) == [x |-> x, y |-> y, chain |-> chain]

\* Directly known equalities, and their reverse direction.
reachable_equal_base(ke) == {Tuple(p[1], p[2], <<>>) : p \in ke}
reachable_equal_reverse(ke) == {Tuple(p[2], p[1], <<>>) : p \in ke}

\* Mutant: the guard of the recursive rule left out.
cycle_guard_off(chain1, z) == TRUE

\* Mutant: the guard compares z with the first key of each conclusion.
cycle_guard_first_key(chain1, z) ==
    ~ \E i \in 1..Len(chain1) :
        chain1[i].output.pred = "Equal" /\ chain1[i].output.k1 = z

\* "Check that z isn't already in our chain": no step of chain1 concludes
\* Equal(_, z).
cycle_guard(chain1, z) ==
    ~ \E i \in 1..Len(chain1) :
        chain1[i].output.pred = "Equal" /\ chain1[i].output.k2 = z

\* Mutant: the step concludes its second premise.
transitive_step_concludes_premise(x, y, z) ==
    DeductionStep("TransitiveEqualFromStatements",
                  <<Equal(x, y), Equal(y, z)>>, Equal(y, z))

transitive_step(x, y, z) ==
    DeductionStep("TransitiveEqualFromStatements",
                  <<Equal(x, y), Equal(y, z)>>, Equal(x, z))

\* Mutant: the new chain holds the new step alone, chain1 is dropped.
reachable_equal_step_drops_chain(re, ke) ==
    {Tuple(p[1].x, p[2][2],
           <<transitive_step(p[1].x, p[1].y, p[2][2])>>) :
        p \in {q \in re \X ke :
                  q[1].y = q[2][1] /\ cycle_guard(q[1].chain, q[2][2])}}

\* reachable_equal(x, z, new_chain) <-- reachable_equal(x, y, chain1),
\*                                      known_equal(y, z), guard
reachable_equal_step(re, ke) ==
    {Tuple(p[1].x, p[2][2],
           Append(p[1].chain, transitive_step(p[1].x, p[1].y, p[2][2]))) :
        p \in {q \in re \X ke :
                  q[1].y = q[2][1] /\ cycle_guard(q[1].chain, q[2][2])}}

\* Mutant: the test y == concrete_key left out.
connected_equal_any_end(ts, re) ==
    UNION {re : stmt \in {u \in ts : u.pred = "Equal"}}

\* Mutant: one chain is kept for each key found connected to the target.
connected_equal_one_per_key(ts, re) ==
    UNION {{CHOOSE t \in {u \in re : u.y = stmt.k /\ u.x = x} : TRUE :
              x \in {u.x : u \in {v \in re : v.y = stmt.k}}} :
           stmt \in {u \in ts : u.pred = "Equal"}}

\* connected_to_target for an Equal target.
connected_equal(ts, re) ==
    UNION {{t \in re : t.y = stmt.k} : stmt \in {u \in ts : u.pred = "Equal"}}

\* connected_to_target from a comparison of two known integer values.
connected_from_ints(ts, kv, pred, op, less) ==
    UNION {{Tuple(p[1][1], p[2][1],
                  <<DeductionStep(op,
                        <<ValueOf(p[1][1], p[1][2]), ValueOf(p[2][1], p[2][2])>>,
                        Stmt(pred, p[1][1], p[2][1], NoKey, NoValue))>>) :
              p \in {q \in kv \X kv :
                        /\ matches(stmt.w, q[1][1]) /\ q[2][1] = stmt.k
                        /\ q[1][2][1] = "Int"
                        /\ q[2][2][1] = "Int"
                        /\ IF less THEN q[1][2][2] < q[2][2][2]
                                   ELSE q[1][2][2] > q[2][2][2]}} :
           stmt \in {u \in ts : u.pred = pred}}

\* Mutant: the Gt rule compares with <.
connected_gt_values_less(ts, kv) == connected_from_ints(ts, kv, "Gt", "GtFromEntries", TRUE)

\* Mutant: the Gt rule compares canonical values, so that a boolean counts
\* as the integer 0 or 1.
connected_gt_values_canonical(ts, kv) ==
    UNION {{Tuple(p[1][1], p[2][1],
                  <<DeductionStep("GtFromEntries",
                        <<ValueOf(p[1][1], p[1][2]), ValueOf(p[2][1], p[2][2])>>,
                        Gt(p[1][1], p[2][1]))>>) :
              p \in {q \in kv \X kv :
                        /\ matches(stmt.w, q[1][1]) /\ q[2][1] = stmt.k
                        /\ q[1][2][1] \in {"Int", "Bool"}
                        /\ q[2][2][1] \in {"Int", "Bool"}
                        /\ to_value(q[1][2])[2] > to_value(q[2][2])[2]}} :
           stmt \in {u \in ts : u.pred = "Gt"}}

connected_gt_values(ts, kv) == connected_from_ints(ts, kv, "Gt", "GtFromEntries", FALSE)
connected_lt_values(ts, kv) == connected_from_ints(ts, kv, "Lt", "LtFromEntries", TRUE)

\* Mutant: the test on the second key of the known statement left out.
connected_existing_any_end(ts, ks, pred) ==
    UNION {{Tuple(s.k1, s.k2, <<>>) :
              s \in {t \in Range(ks) :
                        t.pred = pred /\ matches(stmt.w, t.k1)}} :
           stmt \in {u \in ts : u.pred = pred}}

\* Mutant: the second key of the known statement is compared with the
\* concrete key by field name alone.
connected_existing_matches_field(ts, ks, pred) ==
    UNION {{Tuple(s.k1, s.k2, <<>>) :
              s \in {t \in Range(ks) :
                        /\ t.pred = pred
                        /\ matches(stmt.w, t.k1) /\ t.k2[2] = stmt.k[2]}} :
           stmt \in {u \in ts : u.pred = pred}}

\* connected_to_target from an existing statement of the target's kind.
connected_existing(ts, ks, pred) ==
    UNION {{Tuple(s.k1, s.k2, <<>>) :
              s \in {t \in Range(ks) :
                        /\ t.pred = pred
                        /\ matches(stmt.w, t.k1) /\ t.k2 = stmt.k}} :
           stmt \in {u \in ts : u.pred = pred}}

\* Mutant: the rule for existing Contains statements reads NotContains.
connected_contains_existing_reads_not_contains(ts, ks) ==
    connected_existing(ts, ks, "NotContains")

connected_gt_existing(ts, ks) == connected_existing(ts, ks, "Gt")
connected_lt_existing(ts, ks) == connected_existing(ts, ks, "Lt")
connected_neq_existing(ts, ks) == connected_existing(ts, ks, "NotEqual")
connected_contains_existing(ts, ks) == connected_existing(ts, ks, "Contains")

\* Mutant: the test match_key == concrete_key left out.
connected_neq_from_any_end(ts, ks, pred, op) ==
    UNION {{Tuple(s.k1, s.k2,
                  <<DeductionStep(op, <<Stmt(pred, s.k1, s.k2, NoKey, NoValue)>>,
                                  NotEqual(s.k1, s.k2))>>) :
              s \in {t \in Range(ks) :
                        t.pred = pred /\ matches(stmt.w, t.k1)}} :
           stmt \in {u \in ts : u.pred = "NotEqual"}}

\* connected_to_target for a NotEqual target from a known Gt or Lt.
connected_neq_from(ts, ks, pred, op) ==
    UNION {{Tuple(s.k1, s.k2,
                  <<DeductionStep(op, <<Stmt(pred, s.k1, s.k2, NoKey, NoValue)>>,
                                  NotEqual(s.k1, s.k2))>>) :
              s \in {t \in Range(ks) :
                        /\ t.pred = pred
                        /\ matches(stmt.w, t.k1) /\ t.k2 = stmt.k}} :
           stmt \in {u \in ts : u.pred = "NotEqual"}}

connected_neq_from_gt(ts, ks) == connected_neq_from(ts, ks, "Gt", "GtToNotEqual")

\* Mutant: the Lt rule copied from the Gt rule with its tag left as it was.
connected_neq_from_lt_gt_tag(ts, ks) == connected_neq_from(ts, ks, "Lt", "GtToNotEqual")

connected_neq_from_lt(ts, ks) == connected_neq_from(ts, ks, "Lt", "LtToNotEqual")

\* connected_to_target for a Contains target from two known values.
connected_contains_values(ts, kv) ==
    UNION {{Tuple(p[1][1], p[2][1],
                  <<DeductionStep("ContainsFromEntries",
                        <<ValueOf(p[1][1], p[1][2]), ValueOf(p[2][1], p[2][2])>>,
                        Contains(p[1][1], p[2][1]))>>) :
              p \in {q \in kv \X kv :
                        /\ matches(stmt.w, q[1][1]) /\ q[2][1] = stmt.k
                        /\ check_contains(q[1][2], q[2][2])}} :
           stmt \in {u \in ts : u.pred = "Contains"}}

\* Every connected_to_target rule.
connected_to_target_rules(ts, ks, kv, re) ==
    connected_equal(ts, re)
      \cup connected_gt_values(ts, kv) \cup connected_gt_existing(ts, ks)
      \cup connected_lt_values(ts, kv) \cup connected_lt_existing(ts, ks)
      \cup connected_neq_from_gt(ts, ks) \cup connected_neq_from_lt(ts, ks)
      \cup connected_neq_existing(ts, ks)
      \cup connected_contains_values(ts, kv)
      \cup connected_contains_existing(ts, ks)

Proof(stmt, chain) == [stmt |-> stmt, chain |-> chain]

\* Mutant: the base case does not join on target_statement.
can_prove_base_without_target(ts, ks) ==
    {Proof(s, <<>>) : s \in {t \in Range(ks) : t.pred = "Equal"}}

\* can_prove, base case: a known Equal statement that matches the target.
can_prove_base(ts, ks) ==
    UNION {{Proof(s, <<>>) :
              s \in {t \in Range(ks) :
                        /\ t.pred = "Equal"
                        /\ matches(wild.w, t.k1) /\ wild.k = t.k2}} :
           wild \in {u \in ts : u.pred = "Equal"}}

\* can_prove through connected_to_target, one rule per predicate; the
\* second column of connected_to_target is not read.
can_prove_chains(ts, ct, pred) ==
    UNION {{Proof(Stmt(pred, c.x, stmt.k, NoKey, NoValue), c.chain) :
              c \in {d \in ct : matches(stmt.w, d.x)}} :
           stmt \in {u \in ts : u.pred = pred}}

\* Mutant: a rule for ValueOf targets, from the known value-assignments.
can_prove_rules_with_value_of(ts, ks, ct) ==
    can_prove_base(ts, ks)
      \cup can_prove_chains(ts, ct, "Equal")
      \cup can_prove_chains(ts, ct, "Gt")
      \cup can_prove_chains(ts, ct, "Lt")
      \cup can_prove_chains(ts, ct, "NotEqual")
      \cup can_prove_chains(ts, ct, "Contains")
      \cup UNION {{Proof(s, <<>>) :
                     s \in {t \in Range(ks) :
                               /\ t.pred = "ValueOf"
                               /\ matches(stmt.w, t.k1) /\ t.v = stmt.v}} :
                  stmt \in {u \in ts : u.pred = "ValueOf"}}

can_prove_rules(ts, ks, ct) ==
    can_prove_base(ts, ks)
      \cup can_prove_chains(ts, ct, "Equal")
      \cup can_prove_chains(ts, ct, "Gt")
      \cup can_prove_chains(ts, ct, "Lt")
      \cup can_prove_chains(ts, ct, "NotEqual")
      \cup can_prove_chains(ts, ct, "Contains")

(***************************************************************************)
(* run() on a fresh program, as one function of the facts and the target:  *)
(* the least fixpoint of the recursive rule, then the connector rules and  *)
(* the can_prove rules.                                                    *)
(***************************************************************************)
RECURSIVE reachable_equal_fixpoint(_, _, _)
reachable_equal_fixpoint(total, delta, ke) ==
    LET new == reachable_equal_step(delta, ke) \ (total \cup delta)
    IN  IF new = {} THEN total \cup delta
        ELSE reachable_equal_fixpoint(total \cup delta, new, ke)

reachable_equal_closure(ks) ==
    LET ke == known_equal_rule(ks)
    IN  reachable_equal_fixpoint({}, reachable_equal_base(ke)
                                       \cup reachable_equal_reverse(ke), ke)

\* What prove() returns, as a set, on an engine built with new(), the facts
\* ks added and the target vector ts set.
fresh_prove(ks, ts) ==
    can_prove_rules(Range(ts), ks,
        connected_to_target_rules(Range(ts), ks, known_value_rule(ks),
                                  reachable_equal_closure(ks)))

(***************************************************************************)
(* The engine.                                                             *)
(***************************************************************************)
\* DeductionEngine::new(): AscentProgram::default(), every relation empty.
Init ==
    /\ known_statement = <<>>
    /\ target_statement = <<>>
    /\ can_prove = <<>>
    /\ known_value = {}
    /\ known_equal = {}
    /\ known_gt = {}
    /\ known_lt = {}
    /\ known_neq = {}
    /\ known_contains = {}
    /\ reachable_equal = {}
    /\ connected_to_target = {}
    /\ reach_delta = {}
    /\ iter = 0
    /\ pc = "idle"
    /\ returned = <<>>
    /\ lastOp = "new"
    /\ streak = 0
    /\ ran_targets = {}
    /\ nProves = 0
    /\ nTargets = 0

\* Mutant: a statement the list already holds is not appended again.
add_fact_deduplicated(fact) ==
    /\ pc = "idle"
    /\ known_statement' = IF fact \in Range(known_statement)
                          THEN known_statement
                          ELSE Append(known_statement, fact)
    /\ lastOp' = "add_fact"
    /\ streak' = 0
    /\ UNCHANGED <<target_statement, relations, reach_delta, iter, pc,
                   returned, ran_targets, nProves, nTargets>>

add_fact(fact) ==
    /\ pc = "idle"
    /\ known_statement' = Append(known_statement, fact)
    /\ lastOp' = "add_fact"
    /\ streak' = 0
    /\ UNCHANGED <<target_statement, relations, reach_delta, iter, pc,
                   returned, ran_targets, nProves, nTargets>>

set_target(target) ==
    /\ pc = "idle"
    /\ target_statement' = <<target>>
    /\ nTargets' = nTargets + 1
    /\ lastOp' = "set_target"
    /\ streak' = 0
    /\ UNCHANGED <<known_statement, relations, reach_delta, iter, pc,
                   returned, ran_targets, nProves>>

\* A rule adds to its relation the tuples that are not in it yet.
insert_new(relation, derived) == relation \cup derived

\* Mutant: a derived row is pushed whether or not the vector holds it.
new_rows_unchecked(vector, derived) == derived

\* Mutant: a derived row is dropped when the vector or the other derived
\* rows already prove its statement.
new_rows_one_per_statement(vector, derived) ==
    {CHOOSE p \in derived : p.stmt = stmt :
        stmt \in {q.stmt : q \in derived} \ {q.stmt : q \in Range(vector)}}

\* The rows a can_prove rule pushes: the derived ones not in the vector yet.
new_rows(vector, derived) == derived \ Range(vector)

\* Mutant: every new row is pushed twice.
RECURSIVE push_order_doubled(_)
push_order_doubled(rows) ==
    IF rows = {} THEN <<>>
    ELSE LET row == CHOOSE r \in rows : TRUE
         IN  <<row, row>> \o push_order_doubled(rows \ {row})

\* The order in which one run pushes its new rows is fixed by the iteration
\* order of the indices of the generated program, which the rules do not
\* state: it is an arbitrary fixed order of the rows.
RECURSIVE push_order(_)
push_order(rows) ==
    IF rows = {} THEN <<>>
    ELSE LET row == CHOOSE r \in rows : TRUE
         IN  <<row>> \o push_order(rows \ {row})

\* Mutant: a run after the first starts the loop of the recursive rule from
\* the tuples the base rules have just added, not from the whole relation.
ProveStart_delta_of_new_tuples ==
    /\ pc = "idle"
    /\ nProves' = nProves + 1
    /\ known_value' = insert_new(known_value, known_value_rule(known_statement))
    /\ known_equal' = insert_new(known_equal, known_equal_rule(known_statement))
    /\ known_gt' = insert_new(known_gt, known_gt_rule(known_statement))
    /\ known_lt' = insert_new(known_lt, known_lt_rule(known_statement))
    /\ known_neq' = insert_new(known_neq, known_neq_rule(known_statement))
    /\ known_contains' = insert_new(known_contains, known_contains_rule(known_statement))
    /\ reachable_equal' = insert_new(reachable_equal,
                              reachable_equal_base(known_equal')
                                \cup reachable_equal_reverse(known_equal'))
    /\ reach_delta' = reachable_equal' \ reachable_equal
    /\ iter' = 0
    /\ pc' = "reachable_equal"
    /\ UNCHANGED <<known_statement, target_statement, can_prove,
                   connected_to_target, returned, lastOp, streak, ran_targets,
                   nTargets>>

\* prove(), first strata of run(): the projections of known_statement and
\* the two base rules of reachable_equal; the loop of the recursive rule
\* starts with every tuple of reachable_equal as its delta.
ProveStart ==
    /\ pc = "idle"
    /\ nProves' = nProves + 1
    /\ known_value' = insert_new(known_value, known_value_rule(known_statement))
    /\ known_equal' = insert_new(known_equal, known_equal_rule(known_statement))
    /\ known_gt' = insert_new(known_gt, known_gt_rule(known_statement))
    /\ known_lt' = insert_new(known_lt, known_lt_rule(known_statement))
    /\ known_neq' = insert_new(known_neq, known_neq_rule(known_statement))
    /\ known_contains' = insert_new(known_contains, known_contains_rule(known_statement))
    /\ reachable_equal' = insert_new(reachable_equal,
                              reachable_equal_base(known_equal')
                                \cup reachable_equal_reverse(known_equal'))
    /\ reach_delta' = reachable_equal'
    /\ iter' = 0
    /\ pc' = "reachable_equal"
    /\ UNCHANGED <<known_statement, target_statement, can_prove,
                   connected_to_target, returned, lastOp, streak, ran_targets,
                   nTargets>>

\* One iteration of the loop of the recursive rule: the rule is applied to
\* the delta, the tuples not seen before become the next delta, and the
\* loop ends when there is none.
ReachIter ==
    /\ pc = "reachable_equal"
    /\ iter < MaxIter
    /\ LET new == reachable_equal_step(reach_delta, known_equal) \ reachable_equal
       IN  /\ reachable_equal' = insert_new(reachable_equal, new)
           /\ reach_delta' = new
           /\ pc' = IF new = {} THEN "connected_to_target" ELSE "reachable_equal"
    /\ iter' = iter + 1
    /\ UNCHANGED <<known_statement, target_statement, can_prove, known_value,
                   known_equal, known_gt, known_lt, known_neq, known_contains,
                   connected_to_target, returned, lastOp, streak,
                   ran_targets, nProves, nTargets>>

\* Mutant: can_prove is left holding the rows of the last run alone.
ProveFinish_keeps_new_rows_only ==
    /\ pc = "connected_to_target"
    /\ connected_to_target' =
          insert_new(connected_to_target,
                     connected_to_target_rules(Range(target_statement),
                         known_statement, known_value, reachable_equal))
    /\ can_prove' =
          push_order(new_rows(can_prove,
              can_prove_rules(Range(target_statement), known_statement,
                              connected_to_target')))
    /\ returned' = can_prove'
    /\ pc' = "idle"
    /\ lastOp' = "prove"
    /\ streak' = streak + 1
    /\ ran_targets' = ran_targets \cup {target_statement}
    /\ UNCHANGED <<known_statement, target_statement, known_value,
                   known_equal, known_gt, known_lt, known_neq, known_contains,
                   reachable_equal, reach_delta, iter, nProves, nTargets>>

\* The last strata of run(), and the return of prove(): the connector
\* rules, the can_prove rules, and the clone of can_prove.
ProveFinish ==
    /\ pc = "connected_to_target"
    /\ connected_to_target' =
          insert_new(connected_to_target,
                     connected_to_target_rules(Range(target_statement),
                         known_statement, known_value, reachable_equal))
    /\ can_prove' = can_prove \o
          push_order(new_rows(can_prove,
              can_prove_rules(Range(target_statement), known_statement,
                              connected_to_target')))
    /\ returned' = can_prove'
    /\ pc' = "idle"
    /\ lastOp' = "prove"
    /\ streak' = streak + 1
    /\ ran_targets' = ran_targets \cup {target_statement}
    /\ UNCHANGED <<known_statement, target_statement, known_value,
                   known_equal, known_gt, known_lt, known_neq, known_contains,
                   reachable_equal, reach_delta, iter, nProves, nTargets>>

prove == ProveStart \/ ReachIter \/ ProveFinish

\* A session whose facts and targets are drawn from the given pools, with
\* at most nf facts added, nt targets set and np calls of prove().
NextOver(facts, targets, nf, nt, np) ==
    \/ \E fact \in facts : Len(known_statement) < nf /\ add_fact(fact)
    \/ \E target \in targets : nTargets < nt /\ set_target(target)
    \/ nProves < np /\ ProveStart
    \/ ReachIter
    \/ ProveFinish

(***************************************************************************)
(* What the properties below speak of.                                     *)
(***************************************************************************)
\* prove() has returned, and no fact or target has changed since.
Done == pc = "idle" /\ lastOp = "prove"

\* Every completed run of this engine had the present target (or none).
Fresh == ran_targets \subseteq {<<>>, target_statement}

HasTarget == Len(target_statement) = 1
Target == target_statement[1]
Facts == Range(known_statement)
Results == Range(returned)

(***************************************************************************)
(* Sessions over Equal statements: four keys, and the equalities between   *)
(* neighbours of the ring X, Y, Z, W in both directions.                   *)
(***************************************************************************)
EqRing == <<AnchoredKey("X", "a"), AnchoredKey("Y", "b"),
            AnchoredKey("Z", "b"), AnchoredKey("W", "a")>>
EqKeys == Range(EqRing)
EqFacts ==
    {Equal(EqRing[i], EqRing[(i % Len(EqRing)) + 1]) : i \in 1..Len(EqRing)}
      \cup {Equal(EqRing[(i % Len(EqRing)) + 1], EqRing[i]) : i \in 1..Len(EqRing)}
EqWildcards == {Named("n", "a"), Named("n", "b")}
EqTargets == {WEqual(w, k) : w \in EqWildcards, k \in EqKeys}

\* One target and one call of prove() per session.
NextEq == NextOver(EqFacts, EqTargets, MaxFacts, 1, 1)
SpecEq == Init /\ [][NextEq]_vars

\* The run agrees with run() on a fresh program.
EngineAgreesWithFreshRun ==
    (Done /\ Fresh) =>
        /\ Results = fresh_prove(known_statement, target_statement)
        /\ Cardinality(Results) = Len(returned)

(***************************************************************************)
(* Properties of Equal targets.                                            *)
(***************************************************************************)
KeysOfFacts == {s.k1 : s \in Facts} \cup {s.k2 : s \in Facts}

\* The sequences of n pairwise distinct keys of the known facts.
DistinctKeySeqs(n) ==
    {ks \in [1..n -> KeysOfFacts] :
        \A i, j \in 1..n : i # j => ks[i] # ks[j]}

\* Equal(k0,k1), ..., Equal(k(n-1),kn) for the keys ks = k0..kn.
ChainFacts(ks, n) == {Equal(ks[i], ks[i + 1]) : i \in 1..n}

IsTransitiveChain(chain) ==
    \A i \in 1..Len(chain) :
        /\ chain[i].op = "TransitiveEqualFromStatements"
        /\ Len(chain[i].inputs) = 2

\* prove() has returned Equal(k0,kn) with a chain of n-1 transitive steps.
ReturnsChainOf(ks, n) ==
    \E p \in Results :
        /\ p.stmt = Equal(ks[1], ks[n + 1])
        /\ Len(p.chain) = n - 1
        /\ IsTransitiveChain(p.chain)

\* The known facts are exactly a chain over ks, and the target is
\* Equal(w, kn) with w matching k0.
IsChainQuery(ks, n) ==
    /\ Facts = ChainFacts(ks, n)
    /\ Target.pred = "Equal"
    /\ Target.k = ks[n + 1]
    /\ matches(Target.w, ks[1])

\* C1 (Transitivity): on a fresh engine whose only facts are Equal(k0,k1),
\* ..., Equal(k(n-1),kn) for pairwise distinct keys and whose target is
\* Equal(w, kn) with w matching k0, prove returns a witness for Equal(k0,kn)
\* whose chain has exactly n-1 steps, each tagged
\* TransitiveEqualFromStatements with exactly two premises.
C1_Transitivity ==
    (Done /\ Fresh /\ HasTarget /\ Facts # {}) =>
        \A ks \in DistinctKeySeqs(Cardinality(Facts) + 1) :
            IsChainQuery(ks, Cardinality(Facts)) =>
                ReturnsChainOf(ks, Cardinality(Facts))

\* A chain of three facts over four keys has been proved in two steps.
C1_Witness ==
    /\ Done /\ Fresh /\ HasTarget
    /\ Cardinality(Facts) = 3
    /\ \E ks \in DistinctKeySeqs(4) : IsChainQuery(ks, 3) /\ ReturnsChainOf(ks, 3)

\* The wildcard keys that match the key k.
WildcardsMatching(k) == {Named("n", k[2]), Concrete(k[1], k[2])}

\* C2 (Symmetry): if prove with target Equal(pattern matching A, E) returns
\* a witness for Equal(A,E), then prove on the same facts with target
\* Equal(pattern matching E, A) returns a witness for Equal(E,A).
C2_Symmetry ==
    (Done /\ Fresh /\ HasTarget /\ Target.pred = "Equal") =>
        \A p \in Results :
            \A w \in WildcardsMatching(Target.k) :
                \E q \in fresh_prove(known_statement, <<WEqual(w, p.stmt.k1)>>) :
                    q.stmt = Equal(Target.k, p.stmt.k1)

\* The pairs of keys a known Equal fact joins, in either direction.
EqualEdges ==
    {<<s.k1, s.k2>> : s \in {t \in Facts : t.pred = "Equal"}}
      \cup {<<s.k2, s.k1>> : s \in {t \in Facts : t.pred = "Equal"}}

Successors(keys) == {e[2] : e \in {f \in EqualEdges : f[1] \in keys}}

RECURSIVE ReachedFrom(_)
ReachedFrom(keys) ==
    IF Successors(keys) \subseteq keys THEN keys
    ELSE ReachedFrom(keys \cup Successors(keys))

\* A path of one or more known Equal facts joins k and c.
JoinedByPath(k, c) == c \in ReachedFrom(Successors({k}))

\* C5 (Non-provability without evidence): on a fresh engine with target
\* Equal(w, c), every returned witness is Equal(k, c) for a key k joined to c
\* by a path of known Equal facts; and with the single fact Equal(X,Y) and a
\* target Equal(pattern matching X, Z), Z different from X and Y, prove
\* returns nothing.
C5_NoEqualWithoutEvidence ==
    (Done /\ Fresh /\ HasTarget /\ Target.pred = "Equal") =>
        /\ \A p \in Results :
              /\ p.stmt.pred = "Equal"
              /\ p.stmt.k2 = Target.k
              /\ JoinedByPath(p.stmt.k1, Target.k)
        /\ \A f \in Facts :
              (/\ Facts = {f}
               /\ matches(Target.w, f.k1)
               /\ Target.k \notin {f.k1, f.k2}) => returned = <<>>

\* A witness with a derived chain was returned, and in another session the
\* single-fact query came back empty.
C5_Witness ==
    /\ Done /\ Fresh /\ HasTarget /\ Target.pred = "Equal"
    /\ \/ \E p \in Results : Len(p.chain) >= 1
       \/ \E f \in Facts :
             /\ Facts = {f} /\ matches(Target.w, f.k1)
             /\ Target.k \notin {f.k1, f.k2} /\ returned = <<>>

(***************************************************************************)
(* Termination of the fixpoint: three keys and every Equal statement       *)
(* between two of them, so that the known equalities form cycles of length *)
(* two and three; prove() may be called again on the same engine.          *)
(***************************************************************************)
LoopKeys == {AnchoredKey("A", "a"), AnchoredKey("B", "a"), AnchoredKey("C", "c")}
LoopFacts == {Equal(k1, k2) : k1, k2 \in LoopKeys} \ {Equal(k, k) : k \in LoopKeys}
LoopTargets == {WEqual(Named("n", "c"), AnchoredKey("B", "a"))}

NextLoop == NextOver(LoopFacts, LoopTargets, MaxFacts, 1, MaxProves)

\* prove() is synchronous: once called, run() takes its steps until it
\* returns.
SpecLoop ==
    Init /\ [][NextLoop]_vars /\ WF_vars(ReachIter) /\ WF_vars(ProveFinish)

\* C10 (Termination): for every finite set of known facts and every target,
\* the fixpoint run by prove reaches a state where no rule produces a new
\* tuple (prove returns), also when the known Equal facts form cycles.
C10_Termination == (pc # "idle") ~> (pc = "idle")

\* prove() has returned on facts that hold a cycle of three equalities.
C10_Witness ==
    /\ Done
    /\ \E a, b, c \in LoopKeys :
          /\ a # b /\ b # c /\ a # c
          /\ {Equal(a, b), Equal(b, c), Equal(c, a)} \subseteq Facts
    /\ iter > 1

(***************************************************************************)
(* Sessions over Gt, Lt and NotEqual statements with a NotEqual target.    *)
(***************************************************************************)
NeqKeys == {AnchoredKey("X", "value"), AnchoredKey("Y", "value"),
            AnchoredKey("Z", "size")}
NeqFacts == {Stmt(pred, k1, k2, NoKey, NoValue) :
                pred \in {"Gt", "Lt", "NotEqual"}, k1 \in NeqKeys, k2 \in NeqKeys}
NeqWildcards == {Named("n", "value"), Concrete("X", "value"), Named("n", "size")}
NeqTargets == {WNotEqual(w, k) : w \in NeqWildcards, k \in NeqKeys}

NextNeq == NextOver(NeqFacts, NeqTargets, MaxFacts - 1, 1, 1)
SpecNeq == Init /\ [][NextNeq]_vars

\* C6 (Gt/Lt to NotEqual): on a fresh engine with a known fact Gt(X,Y) and
\* target NotEqual(w, Y), w matching X, prove returns (NotEqual(X,Y), chain)
\* where chain is the one step GtToNotEqual from [Gt(X,Y)] to NotEqual(X,Y);
\* the same with Lt(X,Y) and LtToNotEqual.
C6_OrderToNotEqual ==
    (Done /\ Fresh /\ HasTarget /\ Target.pred = "NotEqual") =>
        \A f \in Facts :
            (/\ f.pred \in {"Gt", "Lt"}
             /\ f.k2 = Target.k
             /\ matches(Target.w, f.k1)) =>
                Proof(NotEqual(f.k1, f.k2),
                      <<DeductionStep(IF f.pred = "Gt" THEN "GtToNotEqual"
                                                       ELSE "LtToNotEqual",
                                      <<f>>, NotEqual(f.k1, f.k2))>>) \in Results

\* NotEqual was returned from a known Gt, and from a known Lt.
C6_Witness ==
    /\ Done /\ Fresh /\ HasTarget /\ Target.pred = "NotEqual"
    /\ \E f, g \in Facts :
          /\ f.pred = "Gt" /\ g.pred = "Lt"
          /\ f.k2 = Target.k /\ g.k2 = Target.k
          /\ matches(Target.w, f.k1) /\ matches(Target.w, g.k1)
          /\ Len(returned) = 2

\* Every returned witness of a NotEqual target is NotEqual(k, c) for a known
\* Gt(k,c), Lt(k,c) or NotEqual(k,c), with a chain of at most one step.
NotEqualOnlyFromFacts ==
    \A p \in Results :
        /\ p.stmt.pred = "NotEqual"
        /\ p.stmt.k2 = Target.k
        /\ \E pred \in {"Gt", "Lt", "NotEqual"} :
              Stmt(pred, p.stmt.k1, p.stmt.k2, NoKey, NoValue) \in Facts
        /\ Len(p.chain) <= 1

\* The known facts are exactly f = Lt(X,Y) and g = Lt(Y,Z) for three
\* different keys, and the target is NotEqual(w, Z) with w matching X.
IsLtLtQuery(f, g) ==
    /\ Facts = {f, g}
    /\ f.pred = "Lt" /\ g.pred = "Lt"
    /\ f.k2 = g.k1
    /\ Cardinality({f.k1, f.k2, g.k2}) = 3
    /\ Target.k = g.k2
    /\ matches(Target.w, f.k1)

\* C7 as stated (No transitive strict order): on a fresh engine with target
\* NotEqual(w, c), every returned witness NotEqual(k, c) corresponds to a
\* known fact Gt(k,c), Lt(k,c) or NotEqual(k,c) and its chain has at most one
\* step; and with only the facts Lt(X,Y) and Lt(Y,Z), proving
\* NotEqual(pattern matching X, Z) returns an empty result.
C7_NoTransitiveOrder_Stated ==
    (Done /\ Fresh /\ HasTarget /\ Target.pred = "NotEqual") =>
        /\ NotEqualOnlyFromFacts
        /\ \A f, g \in Facts : IsLtLtQuery(f, g) => returned = <<>>

\* C7 as amended: the same, but with only Lt(X,Y) and Lt(Y,Z) the result
\* is empty when the pattern does not match Y; when it matches Y, the one
\* witness returned is NotEqual(Y,Z), from the known Lt(Y,Z) alone.
C7_NoTransitiveOrder ==
    (Done /\ Fresh /\ HasTarget /\ Target.pred = "NotEqual") =>
        /\ NotEqualOnlyFromFacts
        /\ \A f, g \in Facts :
              IsLtLtQuery(f, g) =>
                  IF matches(Target.w, f.k2)
                  THEN returned =
                         <<Proof(NotEqual(g.k1, g.k2),
                                 <<DeductionStep("LtToNotEqual", <<g>>,
                                                 NotEqual(g.k1, g.k2))>>)>>
                  ELSE returned = <<>>

\* Lt(X,Y), Lt(Y,Z) over three keys, a pattern that matches X alone, and
\* an empty result.
C7_Witness ==
    /\ Done /\ Fresh /\ HasTarget /\ Target.pred = "NotEqual"
    /\ \E f, g \in Facts :
          /\ IsLtLtQuery(f, g)
          /\ ~ matches(Target.w, f.k2)
          /\ returned = <<>>

(***************************************************************************)
(* Sessions over known values, with Gt, Lt and Contains targets.           *)
(***************************************************************************)
ValKeys == {AnchoredKey("X", "value"), AnchoredKey("Y", "value")}
ValArray == VArray(<<FromInt(1), hash_str("s")>>)
ValValues == {VInt(1), VInt(2), VBool(TRUE), VString("s"), ValArray}
ValFacts ==
    {ValueOf(k, v) : k \in ValKeys, v \in ValValues}
      \cup {Contains(k1, k2) : k1, k2 \in ValKeys}
ValWildcards == {Named("n", "value"), Concrete("X", "value")}
ValTargets ==
    {WildcardStatement(pred, w, k, NoValue) :
        pred \in {"Gt", "Lt", "Contains"}, w \in ValWildcards, k \in ValKeys}

NextVal == NextOver(ValFacts, ValTargets, MaxFacts - 1, 1, 1)
SpecVal == Init /\ [][NextVal]_vars

IsValueOf(f, kind) == f.pred = "ValueOf" /\ f.v[1] = kind

\* C8 (Value-driven comparison): on a fresh engine with known facts
\* ValueOf(k1, Int a) and ValueOf(k2, Int b), a > b, and target Gt(w, k2)
\* with w matching k1, prove returns Gt(k1,k2) with the one-step chain
\* GtFromEntries from [ValueOf(k1,a), ValueOf(k2,b)] to Gt(k1,k2), and the
\* field name of k1 is that of w; the same for Lt with a < b and
\* LtFromEntries.
C8_ValueComparison ==
    (Done /\ Fresh /\ HasTarget /\ Target.pred \in {"Gt", "Lt"}) =>
        \A f, g \in Facts :
            (/\ IsValueOf(f, "Int") /\ IsValueOf(g, "Int")
             /\ IF Target.pred = "Gt" THEN f.v[2] > g.v[2] ELSE f.v[2] < g.v[2]
             /\ g.k1 = Target.k
             /\ matches(Target.w, f.k1)) =>
                /\ Proof(Stmt(Target.pred, f.k1, g.k1, NoKey, NoValue),
                         <<DeductionStep(IF Target.pred = "Gt" THEN "GtFromEntries"
                                                               ELSE "LtFromEntries",
                                         <<f, g>>,
                                         Stmt(Target.pred, f.k1, g.k1, NoKey, NoValue))>>)
                      \in Results
                /\ f.k1[2] = Target.w.field

\* Gt has been returned from the values 2 and 1.
C8_Witness ==
    /\ Done /\ Fresh /\ HasTarget /\ Target.pred = "Gt"
    /\ \E f, g \in Facts :
          /\ IsValueOf(f, "Int") /\ IsValueOf(g, "Int")
          /\ f.v[2] > g.v[2]
          /\ g.k1 = Target.k /\ matches(Target.w, f.k1)
          /\ \E p \in Results : p.stmt = Gt(f.k1, g.k1) /\ Len(p.chain) = 1

\* The canonical form of a value: an integer as it is, a string as its
\* hash, a boolean as 0 or 1, a container as its commitment.
CanonicalForm(v) ==
    IF v[1] = "Int" THEN FromInt(v[2])
    ELSE IF v[1] = "String" THEN hash_str(v[2])
    ELSE IF v[1] = "Bool" THEN (IF v[2] THEN FromInt(1) ELSE FromInt(0))
    ELSE commitment(v)

HasElement(array, v) ==
    \E i \in 1..Len(array[2]) : array[2][i] = CanonicalForm(v)

ContainsWitness(f, g) ==
    Proof(Contains(f.k1, g.k1),
          <<DeductionStep("ContainsFromEntries", <<f, g>>, Contains(f.k1, g.k1))>>)

\* C9 (Containment): on a fresh engine with known facts ValueOf(k1, array A)
\* and ValueOf(k2, v), and target Contains(w, k2) with w matching k1, prove
\* returns Contains(k1,k2) with the one-step chain ContainsFromEntries from
\* these two facts exactly when some element of A equals the canonical form
\* of v; when these are the only value facts, k1 and k2 differ, no element
\* of A equals it and no Contains fact with second key k2 is known, prove
\* returns an empty result.
C9_Containment ==
    (Done /\ Fresh /\ HasTarget /\ Target.pred = "Contains") =>
        \A f, g \in Facts :
            (/\ IsValueOf(f, "Array") /\ g.pred = "ValueOf"
             /\ g.k1 = Target.k
             /\ matches(Target.w, f.k1)) =>
                /\ ContainsWitness(f, g) \in Results <=> HasElement(f.v, g.v)
                /\ (/\ {h \in Facts : h.pred = "ValueOf"} = {f, g}
                    /\ f.k1 # g.k1
                    /\ ~ HasElement(f.v, g.v)
                    /\ ~ \E h \in Facts : h.pred = "Contains" /\ h.k2 = g.k1)
                      => returned = <<>>

\* A boolean was found in an array through its canonical form.
C9_Witness ==
    /\ Done /\ Fresh /\ HasTarget /\ Target.pred = "Contains"
    /\ \E f, g \in Facts :
          /\ IsValueOf(f, "Array") /\ IsValueOf(g, "Bool")
          /\ g.k1 = Target.k /\ matches(Target.w, f.k1)
          /\ ContainsWitness(f, g) \in Results

(***************************************************************************)
(* Sessions over statements of every kind on two keys, in which the target *)
(* is set again and prove() is called again.                               *)
(***************************************************************************)
MixX == AnchoredKey("X", "value")
MixY == AnchoredKey("Y", "value")
MixFacts == {Equal(MixX, MixY), Equal(MixY, MixX), Gt(MixX, MixY),
             NotEqual(MixX, MixY), Contains(MixX, MixY),
             ValueOf(MixX, VInt(2)), ValueOf(MixY, VInt(1)),
             SumOf(MixX, MixY, MixY), None}
MixTargets ==
    {WildcardStatement(pred, Named("n", "value"), k, NoValue) :
        pred \in {"Equal", "Gt", "Lt", "NotEqual", "Contains"},
        k \in {MixX, MixY}}
      \cup {WValueOf(Named("n", "value"), VInt(1))}

Next == NextOver(MixFacts, MixTargets, MaxFacts - 1, MaxTargets, MaxProves)
Spec == Init /\ [][Next]_vars

\* A completed run of this engine had another target than the present one.
Retargeted == \E t \in ran_targets : t # <<>> /\ t # target_statement

\* The pair is a witness for the target: the statement has the target's
\* predicate, its first key matches the wildcard key, its second key is the
\* concrete key, and a non-empty chain concludes that statement.
IsWitnessFor(p, target) ==
    /\ p.stmt.pred = target.pred
    /\ matches(target.w, p.stmt.k1)
    /\ p.stmt.k2 = target.k
    /\ Len(p.chain) > 0 => p.chain[Len(p.chain)].output = p.stmt

\* C3 (set_target replaces the previous target): after prove has run for a
\* target T1, then set_target(T2) and prove again, every pair returned by the
\* second prove is a witness for T2 only.
C3_TargetReplaced ==
    (Done /\ HasTarget /\ Retargeted) =>
        \A p \in Results : IsWitnessFor(p, Target)

\* C4 (Idempotence): prove called twice in a row, with no add_fact or
\* set_target in between, returns the same sequence both times.
C4_Idempotence ==
    [][(pc = "connected_to_target" /\ lastOp = "prove" /\ pc' = "idle")
          => returned' = returned]_vars

\* prove() has returned a non-empty result twice in a row.
C4_Witness == Done /\ streak >= 2 /\ returned # <<>>

(***************************************************************************)
(* Sessions in which statements the rules do not read (SumOf, ProductOf,   *)
(* MaxOf, NotContains, None) are added next to statements they read;       *)
(* prove() may be called again after more facts were added.                *)
(***************************************************************************)
InertFacts ==
    {Equal(MixX, MixY), Gt(MixX, MixY),
     SumOf(MixX, MixY, MixY), ProductOf(MixX, MixY, MixY),
     MaxOf(MixX, MixY, MixY), NotContains(MixX, MixY), None}
InertTargets ==
    {WildcardStatement(pred, Named("n", "value"), MixY, NoValue) :
        pred \in {"Equal", "Gt", "Lt", "NotEqual", "Contains"}}

\* One target, and up to two calls of prove().
NextInert == NextOver(InertFacts, InertTargets, MaxFacts, 1, 2)
SpecInert == Init /\ [][NextInert]_vars

UnsupportedPredicates == {"SumOf", "ProductOf", "MaxOf", "NotContains", "None"}
IsUnsupported(s) == s.pred \in UnsupportedPredicates
IsSupported(s) == ~ IsUnsupported(s)

\* C11 (Unsupported predicates are inert): the result of prove is the one
\* the same facts without the SumOf, ProductOf, MaxOf, NotContains and None
\* statements give, and no statement of these kinds is a returned statement
\* or the conclusion of a step of a returned chain.
C11_UnsupportedInert ==
    (Done /\ Fresh) =>
        /\ Results = fresh_prove(SelectSeq(known_statement, IsSupported),
                                 target_statement)
        /\ \A p \in Results :
              /\ IsSupported(p.stmt)
              /\ \A i \in 1..Len(p.chain) : IsSupported(p.chain[i].output)

\* A witness was returned from facts of which two are of unsupported kinds.
C11_Witness ==
    /\ Done /\ Fresh /\ HasTarget
    /\ returned # <<>>
    /\ Cardinality({f \in Facts : IsUnsupported(f)}) >= 2
    /\ \E p \in Results : Len(p.chain) = 1

(***************************************************************************)
(* Values that are not integers, under Gt and Lt targets (sessions over    *)
(* known values, SpecVal).                                                 *)
(***************************************************************************)
ValueComparisonTags == {"GtFromEntries", "LtFromEntries"}

\* C12 (Type mismatches are silently excluded): for a Gt or Lt target, prove
\* returns, and every value-comparison step of a returned chain has two
\* integer value-assignments as premises; with no integer value fact and no
\* Gt or Lt fact the result is empty.
C12_TypeMismatch ==
    (Done /\ Fresh /\ HasTarget /\ Target.pred \in {"Gt", "Lt"}) =>
        /\ \A p \in Results :
              \A i \in 1..Len(p.chain) :
                  p.chain[i].op \in ValueComparisonTags =>
                      \A j \in 1..Len(p.chain[i].inputs) :
                          IsValueOf(p.chain[i].inputs[j], "Int")
        /\ (/\ ~ \E f \in Facts : IsValueOf(f, "Int")
            /\ ~ \E f \in Facts : f.pred \in {"Gt", "Lt"}) => returned = <<>>

\* prove() has returned nothing for Gt(w, k2) with the integer 2 known for a
\* key that w matches and a boolean known for k2.
C12_Witness ==
    /\ Done /\ Fresh /\ HasTarget /\ Target.pred = "Gt"
    /\ \E f, g \in Facts :
          /\ IsValueOf(f, "Int") /\ f.v[2] = 2 /\ matches(Target.w, f.k1)
          /\ IsValueOf(g, "Bool") /\ g.k1 = Target.k
          /\ f.k1 # g.k1
    /\ Cardinality(Facts) = 2
    /\ returned = <<>>

(***************************************************************************)
(* Wildcard matching: sessions over NotEqual statements on keys that share *)
(* origins and field names, with targets whose wildcard key is Concrete or *)
(* Named, under two labels.                                                *)
(***************************************************************************)
MatchKeys == {AnchoredKey("X", "a"), AnchoredKey("Y", "a"), AnchoredKey("X", "b")}
MatchFacts == {NotEqual(k1, k2) : k1 \in MatchKeys, k2 \in MatchKeys}
MatchWildcards ==
    {Named(label, field) : label \in {"n", "m"}, field \in {"a", "b"}}
      \cup {Concrete(origin, field) : origin \in {"X", "Y"}, field \in {"a", "b"}}
MatchTargets == {WNotEqual(w, k) : w \in MatchWildcards, k \in MatchKeys}

NextMatch == NextOver(MatchFacts, MatchTargets, MaxFacts - 1, 1, 1)
SpecMatch == Init /\ [][NextMatch]_vars

\* The stated condition: the field names are equal and, for a Concrete
\* wildcard key, so are the origins.
MatchesAsStated(w, k) ==
    /\ k[2] = w.field
    /\ w.kind = "Concrete" => w.id = k[1]

\* The target with the label of its Named wildcard key replaced.
Relabelled(target, label) ==
    [target EXCEPT !.w = Named(label, target.w.field)]

\* C13 (Wildcard matching): matches(w, k) is true iff the field names are
\* equal and, for Concrete(o), o is the origin of k; the label of a Named
\* wildcard key plays no role. The keys prove returns for NotEqual(w, c) are
\* the first keys of the known NotEqual(k, c) with k matched as stated, and
\* the same target under another label gives the same result.
C13_WildcardMatching ==
    /\ \A w \in MatchWildcards : \A k \in MatchKeys :
          matches(w, k) <=> MatchesAsStated(w, k)
    /\ (Done /\ Fresh /\ HasTarget) =>
          /\ {p.stmt.k1 : p \in Results} =
                {f.k1 : f \in {g \in Facts : /\ g.k2 = Target.k
                                            /\ MatchesAsStated(Target.w, g.k1)}}
          /\ Target.w.kind = "Named" =>
                \A label \in {"n", "m"} :
                    fresh_prove(known_statement, <<Relabelled(Target, label)>>)
                        = Results

\* With NotEqual(X.a, c) and NotEqual(Y.a, c) known, a Concrete wildcard key
\* has selected one of the two, and a Named one both.
C13_Witness ==
    /\ Done /\ Fresh /\ HasTarget
    /\ \E f, g \in Facts :
          /\ f.k1 # g.k1 /\ f.k1[2] = g.k1[2]
          /\ f.k2 = Target.k /\ g.k2 = Target.k
          /\ \/ Target.w.kind = "Concrete" /\ Len(returned) = 1
             \/ Target.w.kind = "Named" /\ Len(returned) = 2

(***************************************************************************)
(* The known-fact list over sessions of every kind of operation (Spec).    *)
(***************************************************************************)
\* The step is a call of add_fact: the engine is idle before and after, and
\* no target was set.
IsAddFactStep == pc = "idle" /\ pc' = "idle" /\ nTargets' = nTargets

\* The step belongs to a call of prove.
IsProveStep == pc # "idle" \/ pc' # "idle"

\* C14 (The known-fact list is append-only): add_fact appends one statement
\* at the end, whatever its variant and whether or not the list holds it
\* already, and leaves the earlier facts and the target unchanged; set_target
\* and prove leave the list unchanged; prove leaves the target unchanged.
C14_AppendOnly ==
    [][/\ IsAddFactStep =>
             /\ \E fact \in MixFacts :
                   known_statement' = Append(known_statement, fact)
             /\ target_statement' = target_statement
       /\ ~ IsAddFactStep => known_statement' = known_statement
       /\ IsProveStep => target_statement' = target_statement]_vars

\* After prove() has run, a statement the list already held was added a
\* second time, and it is of a kind no rule reads.
C14_Witness ==
    /\ lastOp = "add_fact" /\ nProves >= 1 /\ HasTarget
    /\ Len(known_statement) = 2
    /\ known_statement[1] = known_statement[2]
    /\ IsUnsupported(known_statement[1])

(***************************************************************************)
(* The equality closure (sessions over Equal statements, SpecEq).          *)
(***************************************************************************)
\* The closure holds a chain for (x, z).
HasChain(x, z) == \E t \in reachable_equal : t.x = x /\ t.y = z

\* C15 (Closure completeness): for every two distinct keys x, z joined by a
\* path of known Equal facts, each usable in either direction, the equality
\* closure holds at least one chain for (x, z), and a target Equal(w, z) with
\* w matching x is provable.
C15_ClosureComplete ==
    (Done /\ Fresh) =>
        \A x, z \in KeysOfFacts :
            (x # z /\ JoinedByPath(x, z)) =>
                /\ HasChain(x, z)
                /\ (/\ HasTarget /\ Target.pred = "Equal"
                    /\ Target.k = z /\ matches(Target.w, x)) =>
                        \E p \in Results : p.stmt = Equal(x, z)

(***************************************************************************)
(* The chains prove() returns (sessions of every kind of statement, Spec). *)
(***************************************************************************)
\* The statement is Equal(y, x) for a known Equal(x, y).
IsReverseOfFact(stmt) ==
    stmt.pred = "Equal" /\ Equal(stmt.k2, stmt.k1) \in Facts

PremiseJustified(premise, chain, i) ==
    \/ premise \in Facts
    \/ \E h \in 1..(i - 1) : chain[h].output = premise

\* C17 (Chains are checkable in order): in every chain returned by prove on
\* a fresh engine, every premise of every step is a known fact or the
\* conclusion of an earlier step of the same chain.
C17_ChainsCheckable ==
    (Done /\ Fresh) =>
        \A p \in Results :
            \A i \in 1..Len(p.chain) :
                \A j \in 1..Len(p.chain[i].inputs) :
                    PremiseJustified(p.chain[i].inputs[j], p.chain, i)

\* The keys visited along a tuple of the closure: the start key, the first
\* intermediate key, and the second key of each step's conclusion; for an
\* empty chain, the two keys of the tuple.
VisitedKeys(t) ==
    IF t.chain = <<>> THEN <<t.x, t.y>>
    ELSE <<t.x, t.chain[1].inputs[1].k2>>
           \o [i \in 1..Len(t.chain) |-> t.chain[i].output.k2]

PairwiseDistinct(seq) ==
    \A i, j \in 1..Len(seq) : i # j => seq[i] # seq[j]

\* C18 (Equality chains are simple paths): for every triple (x, z, chain) in
\* the equality closure, the keys visited along the chain are pairwise
\* distinct; no chain revisits a key and no chain concludes Equal(k, k).
C18_SimplePaths ==
    \A t \in reachable_equal :
        /\ PairwiseDistinct(VisitedKeys(t))
        /\ \A i \in 1..Len(t.chain) : t.chain[i].output.k1 # t.chain[i].output.k2

(***************************************************************************)
(* The length of the chains of the closure, in every state of the fixpoint *)
(* (sessions over cycles of equalities, SpecLoop).                         *)
(***************************************************************************)
\* The distinct keys that occur in known Equal facts.
EqualKeys ==
    {s.k1 : s \in {t \in Facts : t.pred = "Equal"}}
      \cup {s.k2 : s \in {t \in Facts : t.pred = "Equal"}}

ConclusionEnds(chain) == [i \in 1..Len(chain) |-> chain[i].output.k2]

\* C19 (Chain length is bounded): in every state of the fixpoint, every
\* chain in the equality closure has at most as many steps as there are
\* distinct keys in known Equal facts, and the second keys of the
\* conclusions of its steps are pairwise distinct.
C19_ChainLengthBounded ==
    \A t \in reachable_equal :
        /\ Len(t.chain) <= Cardinality(EqualKeys)
        /\ PairwiseDistinct(ConclusionEnds(t.chain))

\* The bound is met: over three keys the closure holds a chain of three
\* steps.
C19_Witness ==
    /\ Cardinality(EqualKeys) = 3
    /\ \E t \in reachable_equal : Len(t.chain) = 3

(***************************************************************************)
(* Several paths between two keys: sessions over four keys A, B, C, D and  *)
(* the equalities of the diamond A-B-D, A-C-D, with A-D and B-C.           *)
(***************************************************************************)
PathKey(origin) == AnchoredKey(origin, "a")
PathKeys == {PathKey("A"), PathKey("B"), PathKey("C"), PathKey("D")}
PathFacts ==
    {Equal(PathKey("A"), PathKey("B")), Equal(PathKey("B"), PathKey("D")),
     Equal(PathKey("A"), PathKey("C")), Equal(PathKey("C"), PathKey("D")),
     Equal(PathKey("A"), PathKey("D")), Equal(PathKey("B"), PathKey("C"))}
PathTargets == {WEqual(Named("n", "a"), PathKey("D")),
                WEqual(Concrete("A", "a"), PathKey("D"))}

\* Up to four facts (the diamond), one target, one call of prove().
NextPaths == NextOver(PathFacts, PathTargets, MaxFacts + 1, 1, 1)
SpecPaths == Init /\ [][NextPaths]_vars

\* The acyclic paths from x to z that the known Equal facts contain: the
\* sequences of pairwise distinct keys from x to z in which every key is
\* joined to the next by a known fact Equal(k, k').
AcyclicPaths(x, z) ==
    {ks \in UNION {[1..n -> PathKeys] : n \in 2..Cardinality(PathKeys)} :
        /\ ks[1] = x /\ ks[Len(ks)] = z
        /\ PairwiseDistinct(ks)
        /\ \A i \in 1..(Len(ks) - 1) : Equal(ks[i], ks[i + 1]) \in Facts}

\* The path a returned pair goes along.
PathOf(p) ==
    IF p.chain = <<>> THEN <<p.stmt.k1, p.stmt.k2>>
    ELSE <<p.chain[1].inputs[1].k1, p.chain[1].inputs[1].k2>>
           \o ConclusionEnds(p.chain)

\* C20 (Every distinct witness is returned): with target Equal(w, z) and w
\* matching x, prove returns for every acyclic path from x to z in the known
\* Equal facts a pair with the statement Equal(x, z) and the chain along that
\* path; two different paths give two pairs with different chains.
C20_EveryWitness ==
    (Done /\ Fresh /\ HasTarget /\ Target.pred = "Equal") =>
        \A x \in PathKeys :
            matches(Target.w, x) =>
                /\ \A ks \in AcyclicPaths(x, Target.k) :
                      \E p \in Results :
                          p.stmt = Equal(x, Target.k) /\ PathOf(p) = ks
                /\ Cardinality({p \in Results : p.stmt = Equal(x, Target.k)})
                      >= Cardinality(AcyclicPaths(x, Target.k))

\* The diamond Equal(A,B), Equal(B,D), Equal(A,C), Equal(C,D): Equal(A,D) was
\* returned twice, with two different one-step chains.
C20_Witness ==
    /\ Done /\ Fresh /\ HasTarget /\ Target.pred = "Equal"
    /\ Facts = {Equal(PathKey("A"), PathKey("B")), Equal(PathKey("B"), PathKey("D")),
                Equal(PathKey("A"), PathKey("C")), Equal(PathKey("C"), PathKey("D"))}
    /\ \E p, q \in Results :
          /\ p.stmt = Equal(PathKey("A"), PathKey("D")) /\ q.stmt = p.stmt
          /\ p.chain # q.chain
          /\ Len(p.chain) = 1 /\ Len(q.chain) = 1

(***************************************************************************)
(* Sessions over two keys with a fact of each supported predicate, a known *)
(* integer for each key, and a target of each kind.                        *)
(***************************************************************************)
AllPredicates == {"Equal", "Gt", "Lt", "NotEqual", "Contains"}
AllFacts ==
    {Equal(MixX, MixY), Equal(MixY, MixX), Gt(MixX, MixY), Lt(MixY, MixX),
     NotEqual(MixX, MixY), Contains(MixX, MixY),
     ValueOf(MixX, VInt(2)), ValueOf(MixY, VInt(1))}
AllTargets ==
    {WildcardStatement(pred, Named("n", "value"), k, NoValue) :
        pred \in AllPredicates, k \in {MixX, MixY}}
      \cup {WEqual(Concrete("X", "value"), MixY),
            WValueOf(Named("n", "value"), VInt(1))}

\* One target, one call of prove().
NextAll == NextOver(AllFacts, AllTargets, MaxFacts, 1, 1)
SpecAll == Init /\ [][NextAll]_vars

\* The one-step chain of a value comparison.
ValueComparisonProof(pred, f, g) ==
    Proof(Stmt(pred, f.k1, g.k1, NoKey, NoValue),
          <<DeductionStep(IF pred = "Gt" THEN "GtFromEntries" ELSE "LtFromEntries",
                          <<f, g>>, Stmt(pred, f.k1, g.k1, NoKey, NoValue))>>)

\* f and g assign integers that compare as the predicate says, g to the
\* target's key and f to a key its wildcard key matches.
IsValueComparison(pred, f, g) ==
    /\ IsValueOf(f, "Int") /\ IsValueOf(g, "Int")
    /\ IF pred = "Gt" THEN f.v[2] > g.v[2] ELSE f.v[2] < g.v[2]
    /\ g.k1 = Target.k
    /\ matches(Target.w, f.k1)

\* C21 (Both Gt/Lt sources are emitted): when the facts contain
\* ValueOf(k1, Int a), ValueOf(k2, Int b) with a > b and also Gt(k1,k2),
\* prove with target Gt(w, k2), w matching k1, returns both Gt(k1,k2) with
\* the one-step GtFromEntries chain and Gt(k1,k2) with the empty chain;
\* likewise for Lt.
C21_BothSources ==
    (Done /\ Fresh /\ HasTarget /\ Target.pred \in {"Gt", "Lt"}) =>
        \A f, g \in Facts :
            (/\ IsValueComparison(Target.pred, f, g)
             /\ Stmt(Target.pred, f.k1, g.k1, NoKey, NoValue) \in Facts) =>
                /\ ValueComparisonProof(Target.pred, f, g) \in Results
                /\ Proof(Stmt(Target.pred, f.k1, g.k1, NoKey, NoValue), <<>>)
                      \in Results

\* Gt(X,Y) was returned twice, from the values 2 and 1 and from the fact.
C21_Witness ==
    /\ Done /\ Fresh /\ HasTarget /\ Target.pred = "Gt"
    /\ \E f, g \in Facts :
          /\ IsValueComparison("Gt", f, g)
          /\ Gt(f.k1, g.k1) \in Facts
          /\ returned \in {<<ValueComparisonProof("Gt", f, g), Proof(Gt(f.k1, g.k1), <<>>)>>,
                           <<Proof(Gt(f.k1, g.k1), <<>>), ValueComparisonProof("Gt", f, g)>>}

\* C22 (Existing facts are zero-step proofs): for each predicate P among
\* Equal, Gt, Lt, NotEqual, Contains, if P(k1, k2) is a known fact, prove
\* with target P(w, k2), w matching k1, returns (P(k1,k2), empty chain).
C22_ExistingFacts ==
    (Done /\ Fresh /\ HasTarget /\ Target.pred \in AllPredicates) =>
        \A f \in Facts :
            (/\ f.pred = Target.pred
             /\ f.k2 = Target.k
             /\ matches(Target.w, f.k1)) => Proof(f, <<>>) \in Results

\* A known Contains fact was returned with an empty chain, no value being
\* known.
C22_Witness ==
    /\ Done /\ Fresh /\ HasTarget /\ Target.pred = "Contains"
    /\ \E f \in Facts :
          /\ f.pred = "Contains" /\ f.k2 = Target.k /\ matches(Target.w, f.k1)
          /\ returned = <<Proof(f, <<>>)>>

\* Every returned statement has the target's predicate, a first key the
\* target's wildcard key matches, and the target's concrete key as second
\* key.
ResultsAreInstances ==
    \A p \in Results :
        /\ p.stmt.pred = Target.pred
        /\ matches(Target.w, p.stmt.k1)
        /\ p.stmt.k2 = Target.k

\* f is the only known fact; it has the target's predicate, a first key the
\* wildcard key matches, and a second key with the field name of the
\* concrete key and another origin.
IsOtherOriginQuery(f) ==
    /\ Facts = {f}
    /\ f.pred = Target.pred
    /\ matches(Target.w, f.k1)
    /\ f.k2 # Target.k /\ f.k2[2] = Target.k[2]

\* C23 as stated (Results are instances of the target): on an engine whose
\* target was set once, every returned statement has the target's predicate,
\* a first key that matches the wildcard key and a second key equal to the
\* concrete key; a known fact whose second key has the field name of the
\* concrete key but another origin yields no witness.
C23_InstancesOfTarget_Stated ==
    (Done /\ Fresh /\ HasTarget /\ Target.pred \in AllPredicates) =>
        /\ ResultsAreInstances
        /\ \A f \in Facts : IsOtherOriginQuery(f) => returned = <<>>

\* C23 as amended: the same, but such a fact yields no witness unless it is
\* Equal(c, k) for the concrete key c and a key k the wildcard key matches;
\* then the one witness returned is the reverse Equal(k, c), with an empty
\* chain.
C23_InstancesOfTarget ==
    (Done /\ Fresh /\ HasTarget /\ Target.pred \in AllPredicates) =>
        /\ ResultsAreInstances
        /\ \A f \in Facts :
              IsOtherOriginQuery(f) =>
                  IF f.pred = "Equal" /\ f.k1 = Target.k /\ matches(Target.w, f.k2)
                  THEN returned = <<Proof(Equal(f.k2, f.k1), <<>>)>>
                  ELSE returned = <<>>

\* Gt(X.value, Y.value) alone, with target Gt(w, X.value): nothing returned.
C23_Witness ==
    /\ Done /\ Fresh /\ HasTarget /\ Target.pred = "Gt"
    /\ \E f \in Facts : IsOtherOriginQuery(f) /\ returned = <<>>

\* The list with every statement kept at its first occurrence only.
RECURSIVE Deduplicated(_)
Deduplicated(list) ==
    IF list = <<>> THEN <<>>
    ELSE LET front == Deduplicated(SubSeq(list, 1, Len(list) - 1))
             last == list[Len(list)]
         IN  IF last \in Range(front) THEN front ELSE Append(front, last)

\* C24 (Duplicate facts are treated as a set): the result of prove is the
\* one the same facts, each added once, give, and the sequence returned by
\* prove never contains two identical (statement, chain) pairs.
C24_DuplicateFacts ==
    (Done /\ Fresh) =>
        /\ Results = fresh_prove(Deduplicated(known_statement), target_statement)
        /\ PairwiseDistinct(returned)

\* A fact added twice, and a result of two pairs.
C24_Witness ==
    /\ Done /\ Fresh /\ HasTarget
    /\ Len(known_statement) > Cardinality(Facts)
    /\ Len(returned) = 2
    /\ \E p \in Results : p.stmt = known_statement[1]

(***************************************************************************)
(* Sessions over known values of every kind (integer, string, boolean,     *)
(* array, set, dictionary), with Contains targets.                         *)
(***************************************************************************)
ContValues ==
    {VInt(1), VString("s"), VBool(TRUE),
     VArray(<<FromInt(1)>>), VSet({FromInt(1)}),
     VDictionary({<<"k", FromInt(1)>>})}
ContFacts ==
    {ValueOf(k, v) : k \in {MixX, MixY}, v \in ContValues}
      \cup {Contains(MixX, MixY)}
ContTargets == {WContains(Named("n", "value"), k) : k \in {MixX, MixY}}

NextCont == NextOver(ContFacts, ContTargets, MaxFacts - 1, 1, 1)
SpecCont == Init /\ [][NextCont]_vars

ContainerKinds == {"Array", "Set"}

\* C25 (Containment is defined only for arrays and sets): prove returns for
\* a Contains target, and no ContainsFromEntries step of a returned chain
\* has as first premise the assignment of a dictionary, an integer, a string
\* or a boolean; with no array, no set and no Contains fact known the result
\* is empty.
C25_ContainersOnly ==
    (Done /\ Fresh /\ HasTarget /\ Target.pred = "Contains") =>
        /\ \A p \in Results :
              \A i \in 1..Len(p.chain) :
                  p.chain[i].op = "ContainsFromEntries" =>
                      p.chain[i].inputs[1].v[1] \in ContainerKinds
        /\ (/\ ~ \E f \in Facts : f.pred = "ValueOf" /\ f.v[1] \in ContainerKinds
            /\ ~ \E f \in Facts : f.pred = "Contains") => returned = <<>>

\* A dictionary with the entry k -> 1 is known for a key the wildcard key
\* matches, and the integer 1 for the target's key: nothing is returned.
C25_Witness ==
    /\ Done /\ Fresh /\ HasTarget /\ Target.pred = "Contains"
    /\ \E f, g \in Facts :
          /\ IsValueOf(f, "Dictionary") /\ matches(Target.w, f.k1)
          /\ IsValueOf(g, "Int") /\ g.k1 = Target.k
          /\ f.k1 # g.k1
    /\ returned = <<>>

(***************************************************************************)
(* prove() called again after more facts were added (sessions over cycles  *)
(* of equalities, SpecLoop, with one target).                              *)
(***************************************************************************)
\* C26 (Re-solving after adding facts agrees with solving from scratch): for
\* a target set once, after any interleaving of add_fact and prove calls,
\* the last prove returns the same set of (statement, chain) pairs as a
\* fresh engine given the same facts, the same target and a single prove.
C26_ResolveAgrees ==
    (Done /\ Fresh /\ nProves >= 1) =>
        Results = fresh_prove(known_statement, target_statement)

\* prove() ran, an Equal fact was added, and the second prove() returned a
\* derived chain.
C26_Witness ==
    /\ Done /\ Fresh /\ HasTarget
    /\ nProves = 2 /\ streak = 1
    /\ reachable_equal # {}
    /\ known_equal # known_equal_rule(SubSeq(known_statement, 1, Len(known_statement) - 1))
    /\ \E p \in Results : Len(p.chain) >= 1

(***************************************************************************)
(* More properties of the results (sessions of every kind of target,       *)
(* SpecAll).                                                               *)
(***************************************************************************)
\* C27 (The chain proves the statement it is paired with): on an engine
\* whose target was set once, for every returned pair (statement, chain)
\* with a non-empty chain, the conclusion of the last step of the chain is
\* that statement.
C27_ChainProvesStatement ==
    (Done /\ Fresh) =>
        \A p \in Results :
            p.chain # <<>> => p.chain[Len(p.chain)].output = p.stmt

\* An Equal witness with a transitive step has been returned, and in
\* another session a Gt witness with a value comparison.
C27_Witness ==
    /\ Done /\ Fresh /\ HasTarget
    /\ \E p \in Results :
          /\ p.chain # <<>>
          /\ p.chain[Len(p.chain)].op \in {"TransitiveEqualFromStatements",
                                           "GtFromEntries"}

(***************************************************************************)
(* prove() on an engine without a target (sessions over cycles of          *)
(* equalities, SpecLoop, in which prove() may be called before set_target).*)
(***************************************************************************)
\* C28 (No target, no result): on an engine on which set_target has never
\* been called, prove returns an empty result for every sequence of add_fact
\* calls, and terminates.
C28_NoTargetNoResult ==
    /\ [](nTargets = 0 => (can_prove = <<>> /\ returned = <<>>))
    /\ (nTargets = 0 /\ pc # "idle")
          ~> (pc = "idle" /\ lastOp = "prove" /\ returned = <<>>)

\* prove() has returned on an engine with three Equal facts and no target,
\* after the closure was computed.
C28_Witness ==
    /\ Done /\ nTargets = 0 /\ target_statement = <<>>
    /\ Len(known_statement) = 3
    /\ \E t \in reachable_equal : Len(t.chain) >= 1
    /\ returned = <<>>

\* C29 (A ValueOf target is never provable): on a fresh engine whose target
\* is ValueOf(w, v), prove returns an empty result for every fact set, even
\* when a known fact ValueOf(k, v) has a key k that w matches.
C29_ValueOfTarget ==
    (Done /\ Fresh /\ HasTarget /\ Target.pred = "ValueOf") => returned = <<>>

\* prove() has returned nothing for ValueOf(w, v) with ValueOf(k, v) known
\* for a key k that w matches.
C29_Witness ==
    /\ Done /\ Fresh /\ HasTarget /\ Target.pred = "ValueOf"
    /\ \E f \in Facts :
          f.pred = "ValueOf" /\ f.v = Target.v /\ matches(Target.w, f.k1)
    /\ returned = <<>>

(***************************************************************************)
(* The results of successive calls of prove() (SpecLoop).                  *)
(***************************************************************************)
\* C30 (Results grow monotonically with the facts): with the target
\* unchanged, every (statement, chain) pair returned by a prove call is
\* also returned by every later prove call, whatever facts are added in
\* between.
C30_ResultsGrow ==
    [][target_statement' = target_statement
          => Range(returned) \subseteq Range(returned')]_vars

\* Two calls of prove() for the same target with a fact added in between;
\* the first fact alone gives a witness, and the second call returned more.
C30_Witness ==
    /\ Done /\ HasTarget
    /\ nProves = 2 /\ streak = 1
    /\ ran_targets = {target_statement}
    /\ fresh_prove(SubSeq(known_statement, 1, 1), target_statement) # {}
    /\ Len(returned) >
          Cardinality(fresh_prove(SubSeq(known_statement, 1, 1), target_statement))

====
